---- MODULE Spec2Model ----
(***************************************************************************)
(* Model of sentimentAnalyser/backend/sentimentServer.py: the Flask        *)
(* backend that extracts article text from a URL, pipes it to an external  *)
(* Java analyzer and stores the result in the user's history.              *)
(*                                                                         *)
(* Three specifications share the module:                                  *)
(*   Spec         the HTTP handlers over the users store, the history      *)
(*                store and one client's session, requests overlapping     *)
(*                as the threaded server lets them;                        *)
(*   SpecExtract  extract_text_from_url applied to bounded URLs and pages; *)
(*   SpecInvoke   run_java_analyzer applied to bounded analyzer kinds,     *)
(*                environments and subprocess outcomes.                    *)
(*                                                                         *)
(* Python strings whose length matters are modelled as run-length encoded  *)
(* lines (PyStr); messages built with f-strings are sequences of string    *)
(* tokens; None is the sentinel string None.                               *)
(***************************************************************************)
EXTENDS Integers, Sequences, FiniteSets, Bags, TLC

VARIABLES
    mongo,      \* TRUE: the MongoDB ping succeeded at import; FALSE: MemoryCollection fallback
    asMain,     \* TRUE: the file runs as __main__, so datetime is imported
    users,      \* users_collection: username -> stored "password" value
    links,      \* links_collection: sequence of history records
    session,    \* the client's flask-login session user id, or None
    inflight,   \* bag of the requests that wait inside a handler
    last,       \* the last request answered: its inputs, response and calls made
    ex,         \* SpecExtract: one call of extract_text_from_url
    rj          \* SpecInvoke: one call of run_java_analyzer

vars == <<mongo, asMain, users, links, session, inflight, last, ex, rj>>

None == "<None>"

-----------------------------------------------------------------------------
(* Python strings with a length: a sequence of lines joined by "\n"; each   *)
(* line is lead whitespace, a core that starts and ends with a              *)
(* non-whitespace character (core = 0: the line is blank), and trailing     *)
(* whitespace.  src names where the text came from.                         *)

Line(l, c, t) == [lead |-> l, core |-> c, trail |-> t]

OneLine(n) == IF n = 0 THEN <<>> ELSE <<Line(0, n, 0)>>

PyStr(src, lines) == [src |-> src, lines |-> lines]

RECURSIVE SumLines(_)
SumLines(ls) ==
    IF ls = <<>> THEN 0
    ELSE ls[1].lead + ls[1].core + ls[1].trail + SumLines(Tail(ls))

\* len(s)
len(s) == IF s.lines = <<>> THEN 0 ELSE SumLines(s.lines) + (Len(s.lines) - 1)

NonBlank(ls) == {i \in 1..Len(ls) : ls[i].core > 0}

MinOf(S) == CHOOSE a \in S : \A b \in S : a <= b
MaxOf(S) == CHOOSE a \in S : \A b \in S : a >= b

\* s.strip(): leading and trailing whitespace, line breaks included, removed
strip(s) ==
    IF NonBlank(s.lines) = {} THEN [s EXCEPT !.lines = <<>>]
    ELSE LET a == MinOf(NonBlank(s.lines))
             b == MaxOf(NonBlank(s.lines))
             n == b - a + 1
         IN [s EXCEPT !.lines =
                [i \in 1..n |->
                    LET l == s.lines[a + i - 1]
                    IN Line(IF i = 1 THEN 0 ELSE l.lead,
                            l.core,
                            IF i = n THEN 0 ELSE l.trail)]]

RECURSIVE SumCores(_)
SumCores(ls) == IF ls = <<>> THEN 0 ELSE ls[1].core + SumCores(Tail(ls))

\* lines = [line.strip() for line in text.splitlines() if line.strip()]
\* text = " ".join(lines)
clean_up(s) ==
    LET k == Cardinality(NonBlank(s.lines))
    IN [s EXCEPT !.lines = IF k = 0 THEN <<>>
                           ELSE <<Line(0, SumCores(s.lines) + (k - 1), 0)>>]

-----------------------------------------------------------------------------
(* extract_text_from_url                                                    *)

\* A URL is the sequence of the string's pieces, its suffix a piece of its own.
NoneUrl == <<None>>

download_extensions ==
    {".pdf", ".zip", ".exe", ".doc", ".docx", ".xls", ".xlsx", ".ppt", ".pptx"}

\* str.lower() on a piece of a URL
lower(piece) ==
    CASE piece = ".PDF" -> ".pdf"
      [] piece = ".Zip" -> ".zip"
      [] OTHER -> piece

\* any(url.lower().endswith(ext) for ext in download_extensions)
is_download_link(url) ==
    /\ url # <<>>
    /\ \E ext \in download_extensions : lower(url[Len(url)]) = ext

DOWNLOAD_MSG == PyStr("download_msg", OneLine(51))
NOT_FOUND_MSG == PyStr("not_found_msg", OneLine(108))
FORBIDDEN_MSG == PyStr("forbidden_msg", OneLine(94))
FAILED_MSG == PyStr("failed_msg", OneLine(119))

FailureMessages == {DOWNLOAD_MSG, NOT_FOUND_MSG, FORBIDDEN_MSG, FAILED_MSG}

selectors ==
    <<"article", "main", "[role=\"main\"]", ".content", "#content",
      ".article-body", ".story-body">>

\* soup.select_one(selector) finding nothing
NoElement == [found |-> FALSE, text |-> PyStr("", <<>>)]

Element(s) == [found |-> TRUE, text |-> s]

\* main_content.get_text(strip=True) of an element holding one text node
get_text_strip(el) == strip(el.text)

\* bool(main_content): a bs4 Tag is always true, None is false
truthy(el) == el.found

\* for selector in [...]: main_content = soup.select_one(selector)
\*     if main_content and len(main_content.get_text(strip=True)) > 200: break
\* The value of main_content when the loop ends, started at selector i.
RECURSIVE select_loop(_, _)
select_loop(soup, i) ==
    LET main_content == soup.sel[i]
    IN IF truthy(main_content) /\ len(get_text_strip(main_content)) > 200
       THEN main_content
       ELSE IF i = Len(selectors) THEN main_content
            ELSE select_loop(soup, i + 1)

\* if main_content: text = main_content.get_text(separator=' ')
\* else: text = soup.get_text(separator=' ')
fallback_text(soup) ==
    LET main_content == select_loop(soup, 1)
    IN IF truthy(main_content) THEN main_content.text ELSE soup.page

\* The try block of the newspaper3k extraction: the text it returns, if any.
primary_returns(web) ==
    /\ ~web.primary.raises
    /\ web.primary.text.lines # <<>>
    /\ len(web.primary.text) > 100

ExtractResult(raised, ret, took) == [raised |-> raised, ret |-> ret, took |-> took]

NoStr == PyStr("", <<>>)

\* The fallback try block and its except clauses, then the final return.
fallback_extract(web) ==
    LET h == web.http IN
    IF h.status = 0
    THEN \* session.get raised something other than HTTPError
         ExtractResult(FALSE, FAILED_MSG, "")
    ELSE IF h.status >= 400
    THEN \* response.raise_for_status()
         IF h.status = 404 THEN ExtractResult(FALSE, NOT_FOUND_MSG, "")
         ELSE IF h.status = 403 THEN ExtractResult(FALSE, FORBIDDEN_MSG, "")
         ELSE ExtractResult(FALSE, FAILED_MSG, "")
    ELSE IF ~h.html
    THEN ExtractResult(FALSE, FAILED_MSG, "")
    ELSE LET text == clean_up(fallback_text(h.soup))
         IN IF len(text) > 100
            THEN ExtractResult(FALSE, text, text.src)
            ELSE ExtractResult(FALSE, FAILED_MSG, text.src)

extract_text_from_url(url, web) ==
    IF url = NoneUrl
    THEN \* None.lower(): AttributeError
         ExtractResult(TRUE, NoStr, "")
    ELSE IF is_download_link(url)
    THEN ExtractResult(FALSE, DOWNLOAD_MSG, "")
    ELSE IF primary_returns(web)
    THEN ExtractResult(FALSE, web.primary.text, "")
    ELSE fallback_extract(web)

-----------------------------------------------------------------------------
(* SpecExtract: extract_text_from_url on bounded URLs and web responses     *)

ArticleUrl == <<"http://example.com/article">>

ExUrls ==
    { NoneUrl, <<>>, ArticleUrl,
      <<"http://example.com/file", ".pdf">>,
      <<"http://example.com/file", ".PDF">>,
      <<"http://example.com/file", ".docx">>,
      <<"http://example.com/file", ".pdf", "?dl=1">>,
      <<"http://example.com/page", ".html">> }

\* What newspaper3k may do: raise, or leave article.text
PrimaryRaises == [raises |-> TRUE, text |-> PyStr("newspaper", <<>>)]
PrimaryText(lines) == [raises |-> FALSE, text |-> PyStr("newspaper", lines)]

PrimarySamples ==
    { PrimaryRaises,
      PrimaryText(<<>>),
      PrimaryText(OneLine(100)),
      PrimaryText(OneLine(101)),
      PrimaryText(<<Line(0, 60, 2), Line(0, 0, 0), Line(1, 70, 0)>>),
      PrimaryText(OneLine(5000)),
      PrimaryText(OneLine(5001)) }

\* The text node of an element matched by a selector
ElementLines ==
    { OneLine(50),
      OneLine(200),
      <<Line(3, 201, 2)>>,
      <<Line(0, 40, 0), Line(150, 0, 0), Line(0, 40, 0)>>,
      OneLine(5001) }

PageLines ==
    { OneLine(90),
      <<Line(2, 300, 1), Line(4, 0, 0), Line(1, 150, 0)>>,
      OneLine(6000) }

SelIdx == 1..Len(selectors)

\* Parsed pages in which at most MaxMatched selectors match an element
MaxMatched == 2

Soups ==
    { [sel |-> [i \in SelIdx |->
                  IF i \in DOMAIN m
                  THEN Element(PyStr(selectors[i], m[i]))
                  ELSE NoElement],
       page |-> PyStr("page", p)] :
        m \in UNION { [S -> ElementLines] :
                        S \in {T \in SUBSET SelIdx : Cardinality(T) <= MaxMatched} },
        p \in PageLines }

EmptySoup == [sel |-> [i \in SelIdx |-> NoElement], page |-> PyStr("page", <<>>)]

\* status 0: the request raised (timeout, connection error, bad URL)
HttpFails(status) == [status |-> status, html |-> FALSE, soup |-> EmptySoup]
HttpPage(html, soup) == [status |-> 200, html |-> html, soup |-> soup]

Web(primary, http) == [primary |-> primary, http |-> http]

ExInputs ==
    { [url |-> u, web |-> Web(PrimaryText(OneLine(150)), HttpFails(0))] : u \in ExUrls }
    \cup
    { [url |-> ArticleUrl, web |-> Web(p, HttpFails(0))] : p \in PrimarySamples }
    \cup
    { [url |-> ArticleUrl, web |-> Web(PrimaryRaises, HttpFails(s))] :
        s \in {0, 403, 404, 500} }
    \cup
    { [url |-> ArticleUrl, web |-> Web(p, HttpPage(h, s))] :
        p \in {PrimaryRaises, PrimaryText(OneLine(100))},
        h \in BOOLEAN,
        s \in Soups }

ExIdle == [phase |-> "idle", url |-> <<>>, web |-> Web(PrimaryRaises, HttpFails(0)),
           res |-> ExtractResult(FALSE, NoStr, "")]

ExtractCall ==
    /\ ex.phase = "call"
    /\ ex' = [ex EXCEPT !.phase = "done",
                        !.res = extract_text_from_url(ex.url, ex.web)]
    /\ UNCHANGED <<mongo, asMain, users, links, session, inflight, last, rj>>

-----------------------------------------------------------------------------
(* run_java_analyzer                                                        *)

\* JSON values as json.loads returns them: int, float, str, None
JInt(n) == [t |-> "int", n |-> n, s |-> ""]
JFloat(n) == [t |-> "float", n |-> n, s |-> ""]
JStr(s) == [t |-> "str", n |-> 0, s |-> s]
JNull == [t |-> "null", n |-> 0, s |-> ""]

\* An exception: its class and str(e) as the pieces of the message
Exc(type, msg) == [type |-> type, msg |-> msg]
NoExc == Exc("", <<>>)

\* The strings float() parses, with their values
numeric_strings == [s \in {"30", " 45 "} |-> IF s = "30" THEN 30 ELSE 45]

Conv(ok, val, exc) == [ok |-> ok, val |-> val, exc |-> exc]

\* float(v)
float(v) ==
    CASE v.t = "int" -> Conv(TRUE, JFloat(v.n), NoExc)
      [] v.t = "float" -> Conv(TRUE, v, NoExc)
      [] v.t = "str" ->
            IF v.s \in DOMAIN numeric_strings
            THEN Conv(TRUE, JFloat(numeric_strings[v.s]), NoExc)
            ELSE Conv(FALSE, JNull,
                      Exc("ValueError",
                          <<"could not convert string to float: '", v.s, "'">>))
      [] OTHER ->
            Conv(FALSE, JNull,
                 Exc("TypeError",
                     <<"float() argument must be a string or a real number, not 'NoneType'">>))

\* parsed_result[key] = value
set_item(d, key, value) == (key :> value) @@ d

\* if key not in parsed_result: parsed_result[key] = value
set_default(d, key, value) == IF key \in DOMAIN d THEN d ELSE set_item(d, key, value)

\* Mutant of default_explanation: the placeholder instead of the message
default_explanation_placeholder(d) ==
    IF "explanation" \in DOMAIN d THEN d
    ELSE set_item(d, "explanation", JStr("No explanation provided"))

\* if "explanation" not in parsed_result: ...
default_explanation(d) ==
    IF "explanation" \in DOMAIN d THEN d
    ELSE IF "message" \in DOMAIN d
         THEN set_item(d, "explanation", d["message"])
         ELSE set_item(d, "explanation", JStr("No explanation provided"))

\* The body of the inner try once json.loads returned the dict d
normalize(d) ==
    LET d1 == set_default(d, "left", JFloat(50))
        d2 == set_default(d1, "right", JFloat(50))
        fl == float(d2["left"])
        fr == float(d2["right"])
    IN IF ~fl.ok THEN Conv(FALSE, <<>>, fl.exc)
       ELSE IF ~fr.ok THEN Conv(FALSE, <<>>, fr.exc)
       ELSE LET d3 == set_item(set_item(d2, "left", fl.val), "right", fr.val)
                d4 == set_default(d3, "message", JStr("Analysis complete"))
            IN Conv(TRUE, default_explanation(d4), NoExc)

JAR_PATH ==
    "java-analysers/target/sentiment-analyzer-1.0-SNAPSHOT-jar-with-dependencies.jar"

\* Mutant of analyzer_classes: a fourth kind is mapped
analyzer_classes_with_gpt2 ==
    [llm |-> "com.sentiment.BertPoliticalAnalyser",
     transformer |-> "com.sentiment.TransformerAnalyzer",
     lexicon |-> "com.sentiment.LexiconAnalyzer",
     gpt2 |-> "com.sentiment.GPT2Analyzer"]

analyzer_classes ==
    [llm |-> "com.sentiment.BertPoliticalAnalyser",
     transformer |-> "com.sentiment.TransformerAnalyzer",
     lexicon |-> "com.sentiment.LexiconAnalyzer"]

\* os.environ.get('JAVA_PATH', 'java'), replaced by 'java' when the path is missing
java_executable(env) ==
    IF env.JAVA_PATH = None THEN "java"
    ELSE IF ~env.java_path_exists /\ env.JAVA_PATH # "java" THEN "java"
    ELSE env.JAVA_PATH

\* cmd, with --model for the transformer analyzer when model is truthy
build_cmd(analyzer_type, model, env) ==
    <<java_executable(env), "-cp", JAR_PATH, analyzer_classes[analyzer_type]>>
    \o (IF analyzer_type = "transformer" /\ model # None /\ model # ""
        THEN <<"--model", model>> ELSE <<>>)

\* What run_java_analyzer did: the dict it returned or the exception it raised,
\* and the subprocess.run call it made, if any.
Invoked(ok, value, exc, launched, cmd, input) ==
    [ok |-> ok, value |-> value, exc |-> exc, launched |-> launched,
     cmd |-> cmd, input |-> input]

\* except Exception as e: raise Exception(f"Error running analyzer: {str(e)}")
wrap(e) == Exc("Exception", <<"Error running analyzer: ">> \o e.msg)

\* The try block: subprocess.run(cmd, input=text, ...) and the handling of its result
run_subprocess(cmd, text, proc) ==
    IF proc.spawn_error
    THEN Invoked(FALSE, <<>>,
                 wrap(Exc("FileNotFoundError",
                          <<"[Errno 2] No such file or directory: '", cmd[1], "'">>)),
                 TRUE, cmd, text)
    ELSE IF proc.returncode # 0
    THEN Invoked(FALSE, <<>>,
                 wrap(Exc("Exception",
                          <<"Java program error (", ToString(proc.returncode), "): ",
                            proc.stderr>>)),
                 TRUE, cmd, text)
    ELSE IF proc.stdout.kind = "invalid"
    THEN Invoked(FALSE, <<>>,
                 wrap(Exc("Exception", <<"Analyzer returned invalid JSON">>)),
                 TRUE, cmd, text)
    ELSE IF proc.stdout.kind = "array"
    THEN \* parsed_result["left"] = 50.0 on a list
         Invoked(FALSE, <<>>,
                 wrap(Exc("TypeError",
                          <<"list indices must be integers or slices, not str">>)),
                 TRUE, cmd, text)
    ELSE LET n == normalize(proc.stdout.obj)
         IN IF n.ok THEN Invoked(TRUE, n.val, NoExc, TRUE, cmd, text)
            ELSE Invoked(FALSE, <<>>, wrap(n.exc), TRUE, cmd, text)

run_java_analyzer(analyzer_type, text, model, env) ==
    IF ~env.jar_exists
    THEN Invoked(FALSE, <<>>,
                 Exc("Exception",
                     <<"JAR file not found: ", JAR_PATH,
                       ". Make sure to build the project with Maven first.">>),
                 FALSE, <<>>, NoStr)
    ELSE IF analyzer_type \notin DOMAIN analyzer_classes
    THEN Invoked(FALSE, <<>>,
                 Exc("ValueError", <<"Unknown analyzer type: ", analyzer_type>>),
                 FALSE, <<>>, NoStr)
    ELSE run_subprocess(build_cmd(analyzer_type, model, env), text, env.proc)

-----------------------------------------------------------------------------
(* SpecInvoke: run_java_analyzer on bounded inputs                          *)

Stdout(kind, obj) == [kind |-> kind, obj |-> obj]

Proc(spawn_error, returncode, stdout, stderr) ==
    [spawn_error |-> spawn_error, returncode |-> returncode,
     stdout |-> stdout, stderr |-> stderr]

Env(jar_exists, java_path, java_path_exists, proc) ==
    [jar_exists |-> jar_exists, JAVA_PATH |-> java_path,
     java_path_exists |-> java_path_exists, proc |-> proc]

OkObject == [left |-> JInt(60), right |-> JInt(40), message |-> JStr("ok")]

ProcOk(obj) == Proc(FALSE, 0, Stdout("object", obj), "")
ProcExit1 == Proc(FALSE, 1, Stdout("invalid", <<>>), "boom")
ProcBadJson == Proc(FALSE, 0, Stdout("invalid", <<>>), "")

ProcSamples ==
    { ProcOk(OkObject), ProcExit1, ProcBadJson,
      Proc(TRUE, 0, Stdout("invalid", <<>>), ""),
      Proc(FALSE, 0, Stdout("array", <<>>), "warning") }

\* The values the external program may emit per field
FieldValues ==
    [left |-> {JInt(70), JFloat(40), JStr("30"), JStr("high"), JNull},
     right |-> {JInt(30), JFloat(60), JStr(" 45 "), JStr("low"), JNull},
     message |-> {JStr("ok")},
     explanation |-> {JStr("because")},
     confidence |-> {JInt(9)}]

JsonObjects ==
    UNION { { d \in [K -> UNION {FieldValues[k] : k \in K}] :
                \A k \in K : d[k] \in FieldValues[k] } :
            K \in SUBSET DOMAIN FieldValues }

KindSamples == {"lexicon", "llm", "transformer", "gpt2", "bert", "Lexicon"}
ModelSamples == {None, "", "m1"}
SampleText == PyStr("newspaper", OneLine(150))

RjInputs ==
    { [analyzer_type |-> k, text |-> SampleText, model |-> m,
       env |-> Env(j, jp[1], jp[2], p)] :
        k \in KindSamples, m \in ModelSamples, j \in BOOLEAN,
        jp \in {<<None, FALSE>>, <<"/opt/jdk/bin/java", TRUE>>, <<"/missing/java", FALSE>>},
        p \in ProcSamples }
    \cup
    { [analyzer_type |-> "lexicon", text |-> SampleText, model |-> None,
       env |-> Env(TRUE, None, FALSE, Proc(FALSE, 0, Stdout("object", d), e))] :
        d \in JsonObjects, e \in {"", "warning"} }

RjIdle == [phase |-> "idle", analyzer_type |-> "lexicon", text |-> NoStr,
           model |-> None, env |-> Env(FALSE, None, FALSE, ProcBadJson),
           res |-> Invoked(FALSE, <<>>, NoExc, FALSE, <<>>, NoStr)]

InvokeCall ==
    /\ rj.phase = "call"
    /\ rj' = [rj EXCEPT !.phase = "done",
                        !.res = run_java_analyzer(rj.analyzer_type, rj.text,
                                                  rj.model, rj.env)]
    /\ UNCHANGED <<mongo, asMain, users, links, session, inflight, last, ex>>

-----------------------------------------------------------------------------
(* The stores, flask-login and flask-bcrypt                                 *)

\* bcrypt.generate_password_hash(password).decode('utf-8')
generate_password_hash(password) == [kind |-> "bcrypt", pw |-> password]

\* users_db = {"olly": {"password": "demo"}}: the stored value is the inner dict
users_db == "olly" :> [kind |-> "dict", pw |-> "demo"]

\* No stored password: find_one returned None, or was not called
NoStored == [kind |-> "", pw |-> ""]

\* users_collection.find_one({"_id": key}), for MemoryCollection and for MongoDB
find_one(usrs, key) ==
    IF key \in DOMAIN usrs
    THEN [found |-> TRUE, password |-> usrs[key]]
    ELSE [found |-> FALSE, password |-> NoStored]

\* users_collection.insert_one({"_id": username, "password": hashed_password}):
\* MongoDB refuses a second document with the _id, MemoryCollection overwrites
insert_one_user(usrs, username, hashed_password, isMongo) ==
    IF isMongo /\ username \in DOMAIN usrs
    THEN [raised |-> TRUE, users |-> usrs]
    ELSE [raised |-> FALSE, users |-> (username :> hashed_password) @@ usrs]

\* bcrypt.check_password_hash(pw_hash, password): "raise" when either is no string
check_password_hash(pw_hash, password) ==
    IF pw_hash.kind # "bcrypt" \/ password = None THEN "raise"
    ELSE IF pw_hash.pw = password THEN "match" ELSE "differ"

\* load_user(user_id): the user id flask-login makes current_user, or None
load_user(usrs, user_id) ==
    IF find_one(usrs, user_id).found THEN user_id ELSE None

\* current_user.id for the session, None for the anonymous user
current_user(usrs, sess) ==
    IF sess = None THEN None ELSE load_user(usrs, sess)

\* @login_required lets the request through
login_required(usrs, sess) == current_user(usrs, sess) # None

BaseResp ==
    [status |-> 200, error |-> <<>>, message |-> "", results |-> <<>>,
     console_message |-> <<>>, authenticated |-> FALSE, user |-> None,
     records |-> <<>>]

ErrorResp(status, msg) == [BaseResp EXCEPT !.status = status, !.error = msg]
MessageResp(status, message) == [BaseResp EXCEPT !.status = status, !.message = message]

\* @login_manager.unauthorized_handler
unauthorized == ErrorResp(401, <<"Authentication required">>)

\* Flask's answer to an exception no handler catches
internal_server_error == ErrorResp(500, <<"Internal Server Error">>)

-----------------------------------------------------------------------------
(* The handlers.  The server handles requests on threads, so a handler is a *)
(* chain of steps, other requests running in between: one step for each     *)
(* access to the stores or the session, the code around it going with it.   *)
(* Each operator below is the code of one such step.                        *)

\* not x, for a request field: missing or empty
falsy(x) == x = None \/ x = ""

\* No response yet: the handler goes on
NoResp == [BaseResp EXCEPT !.status = 0]

\* register() down to the check for an existing user
register_check(username, password, usrs) ==
    IF falsy(username) \/ falsy(password)
    THEN ErrorResp(400, <<"Missing username or password">>)
    ELSE IF find_one(usrs, username).found
    THEN ErrorResp(409, <<"Username already exists">>)
    ELSE NoResp

\* register(): the password is hashed and insert_one called
register_insert(username, password, usrs, isMongo) ==
    LET ins == insert_one_user(usrs, username, generate_password_hash(password), isMongo)
    IN [resp |-> IF ins.raised
                 THEN \* DuplicateKeyError, caught by nothing
                      internal_server_error
                 ELSE NoResp,
        users |-> ins.users]

\* register(): login_user(User(user_id=username)) and the return
register_return(username) ==
    [resp |-> MessageResp(201, "User registered successfully"), session |-> username]

\* login() down to find_one: the hardcoded pair is let in without a look at
\* the store; otherwise what find_one read goes on to bcrypt (NoStored: None)
login_find(username, password, usrs) ==
    IF username = "olly" /\ password = "demo"
    THEN [resp |-> MessageResp(200, "Login successful"), stored |-> NoStored]
    ELSE [resp |-> NoResp, stored |-> find_one(usrs, username).password]

\* login() from "if user and bcrypt.check_password_hash(...)" on
login_check(username, password, stored, sess) ==
    IF stored # NoStored /\ check_password_hash(stored, password) = "match"
    THEN [resp |-> MessageResp(200, "Login successful"), session |-> username]
    ELSE [resp |-> ErrorResp(401, <<"Invalid username or password">>), session |-> sess]

check_auth(usrs, sess) ==
    IF current_user(usrs, sess) # None
    THEN [BaseResp EXCEPT !.authenticated = TRUE, !.user = current_user(usrs, sess)]
    ELSE [BaseResp EXCEPT !.status = 401]

\* @login_required in front of history(): whether the request gets to the
\* body, and the current_user it runs as
history_enter(usrs, sess) ==
    [passed |-> login_required(usrs, sess), user |-> current_user(usrs, sess)]

\* list(links_collection.find({"user": current_user.id})) and the return
history_find(user, lnks, isMongo) ==
    IF ~isMongo
    THEN \* MemoryCollection.find: a list has no items()
         internal_server_error
    ELSE [BaseResp EXCEPT !.records = SelectSeq(lnks, LAMBDA r : r.user = user)]

\* Mutant of analyze_enter: the route without @login_required
analyze_enter_without_login_required(usrs, sess) ==
    [passed |-> TRUE, user |-> current_user(usrs, sess)]

\* @login_required in front of analyze(): whether the request gets to the
\* body, and the current_user it runs as
analyze_enter(usrs, sess) ==
    [passed |-> login_required(usrs, sess), user |-> current_user(usrs, sess)]

history_record(user, url, analyzer_type, model, result) ==
    [user |-> user, url |-> url, analyzer_type |-> analyzer_type,
     model |-> IF analyzer_type = "transformer" THEN model ELSE None,
     left |-> result["left"], right |-> result["right"],
     message |-> result["message"], explanation |-> result["explanation"],
     date |-> "now"]

\* except Exception as e: return jsonify({'error': f"Analysis error: {str(e)}"})
analysis_error(e) == ErrorResp(200, <<"Analysis error: ">> \o e.msg)

\* article_text = extract_text_from_url(url), inside analyze()'s try
analyze_extract(url, web) ==
    LET extracted == extract_text_from_url(url, web)
    IN [resp |-> IF extracted.raised
                 THEN analysis_error(Exc("AttributeError",
                                         <<"'NoneType' object has no attribute 'lower'">>))
                 ELSE NoResp,
        extracted |-> extracted]

\* result = run_java_analyzer(analyzer_type, article_text, model), inside the try
analyze_run(analyzer_type, article_text, model, env) ==
    LET invoked == run_java_analyzer(analyzer_type, article_text, model, env)
    IN [resp |-> IF invoked.ok THEN NoResp ELSE analysis_error(invoked.exc),
        invoked |-> invoked]

\* history_record = {...}; links_collection.insert_one(history_record)
analyze_store(user, url, analyzer_type, model, result, lnks, isMongo, hasDatetime) ==
    IF ~hasDatetime
    THEN \* "date": datetime.now() without the import
         [resp |-> analysis_error(Exc("NameError", <<"name 'datetime' is not defined">>)),
          links |-> lnks, inserted |-> <<>>]
    ELSE IF ~isMongo
    THEN \* MemoryCollection.insert_one: doc["_id"] of a record without _id
         [resp |-> analysis_error(Exc("KeyError", <<"'_id'">>)),
          links |-> lnks, inserted |-> <<>>]
    ELSE LET record == history_record(user, url, analyzer_type, model, result)
         IN [resp |-> NoResp, links |-> Append(lnks, record), inserted |-> <<record>>]

\* return jsonify({'results': result, 'console_message': ...})
analyze_return(result, url) ==
    [BaseResp EXCEPT !.results = result,
                     !.console_message = <<"Successfully analyzed article from ">> \o url]

-----------------------------------------------------------------------------
(* Spec: one client's requests, handled concurrently                        *)

\* The history store holds at most MaxLinks records
MaxLinks == 2

\* At most MaxInFlight requests are inside a handler at a time
MaxInFlight == 2

\* username and password of a register body; None: the field is missing
RegisterInputs ==
    {<<None, "pw">>, <<"alice", None>>, <<"alice", "pw">>, <<"alice", "demo">>}

\* username and password of a login body
LoginInputs == {<<"olly", "demo">>, <<"alice", "pw">>, <<"alice", "demo">>}

UrlInputs == {NoneUrl, ArticleUrl}

\* analyzer_type and model of the request body; None: the field is missing,
\* and the kind is the default
KindModelInputs == {<<None, None>>}

WebArticle == Web(PrimaryText(OneLine(150)), HttpFails(0))
WebNotFound == Web(PrimaryRaises, HttpFails(404))
WebBlocked == Web(PrimaryRaises, HttpFails(0))

\* What the network answers for a URL: there is nothing to fetch for None
WebsFor(url) ==
    IF url = NoneUrl THEN {WebBlocked} ELSE {WebArticle, WebNotFound}

ProcInputs == {ProcOk(OkObject), ProcExit1}

\* The JAR is there and the program ends one of these ways
EnvInputs == {Env(TRUE, None, FALSE, p) : p \in ProcInputs}

NotExtracted == ExtractResult(FALSE, NoStr, "")
NotInvoked == Invoked(FALSE, <<>>, NoExc, FALSE, <<>>, NoStr)

\* A request of the route op as it arrives.  The record follows the request
\* through its handler: its inputs, the statement it stands before (at), what
\* the calls made for it returned, the history records inserted for it and,
\* in the end, its response.
Arrived(op) ==
    [op |-> op, at |-> "", username |-> None, password |-> None, stored |-> NoStored,
     user |-> None, url |-> <<>>, analyzer_type |-> None, model |-> None,
     extractor_called |-> FALSE, extracted |-> NotExtracted,
     analyzer_called |-> FALSE, invoked |-> NotInvoked,
     inserted |-> <<>>, resp |-> NoResp]

\* The request r answered with resp
Answer(r, resp) == [r EXCEPT !.at = "answered", !.resp = resp]

Took(r) == inflight (-) SetToBag({r})
Put(r) == inflight (+) SetToBag({r})
Moved(r, q) == Took(r) (+) SetToBag({q})

Init ==
    /\ mongo \in BOOLEAN
    /\ asMain \in BOOLEAN
    /\ users = IF mongo THEN <<>> ELSE users_db
    /\ links = <<>>
    /\ session = None
    /\ inflight = EmptyBag
    /\ last = Arrived("none")
    /\ ex = ExIdle
    /\ rj = RjIdle

\* POST /register: validation and find_one.  A 400 depends on the body alone
\* and a name once stored stays stored, so these answers are given here.
Register ==
    \E up \in RegisterInputs :
        LET r == [Arrived("register") EXCEPT !.username = up[1], !.password = up[2]]
            resp == register_check(r.username, r.password, users)
        IN /\ IF resp # NoResp
              THEN /\ last' = Answer(r, resp)
                   /\ UNCHANGED inflight
              ELSE /\ BagCardinality(inflight) < MaxInFlight
                   /\ inflight' = Put([r EXCEPT !.at = "insert_one"])
                   /\ UNCHANGED last
           /\ UNCHANGED <<mongo, asMain, users, links, session, ex, rj>>

\* A register that passed the check reaches insert_one: the hash is written,
\* or MongoDB refuses the duplicate (it stays one, so the 500 is given here)
RegisterInsert ==
    \E r \in BagToSet(inflight) :
        /\ r.op = "register" /\ r.at = "insert_one"
        /\ LET i == register_insert(r.username, r.password, users, mongo)
           IN /\ users' = i.users
              /\ IF i.resp # NoResp
                 THEN /\ last' = Answer(r, i.resp)
                      /\ inflight' = Took(r)
                 ELSE /\ inflight' = Moved(r, [r EXCEPT !.at = "login_user"])
                      /\ UNCHANGED last
        /\ UNCHANGED <<mongo, asMain, links, session, ex, rj>>

\* The register logs its user in and answers 201
RegisterReturn ==
    \E r \in BagToSet(inflight) :
        /\ r.op = "register" /\ r.at = "login_user"
        /\ session' = register_return(r.username).session
        /\ last' = Answer(r, register_return(r.username).resp)
        /\ inflight' = Took(r)
        /\ UNCHANGED <<mongo, asMain, users, links, ex, rj>>

\* POST /login: the hardcoded pair is answered here (no store is read for
\* it); any other goes to find_one and on to bcrypt with what it read
Login ==
    \E up \in LoginInputs :
        LET r == [Arrived("login") EXCEPT !.username = up[1], !.password = up[2]]
            f == login_find(r.username, r.password, users)
        IN /\ IF f.resp # NoResp
              THEN /\ session' = r.username
                   /\ last' = Answer(r, f.resp)
                   /\ UNCHANGED inflight
              ELSE /\ BagCardinality(inflight) < MaxInFlight
                   /\ inflight' = Put([r EXCEPT !.at = "check_password_hash",
                                                !.stored = f.stored])
                   /\ UNCHANGED <<session, last>>
           /\ UNCHANGED <<mongo, asMain, users, links, ex, rj>>

\* bcrypt.check_password_hash returns or raises (or is not called, for no
\* user), and the login is answered
LoginCheck ==
    \E r \in BagToSet(inflight) :
        /\ r.op = "login" /\ r.at = "check_password_hash"
        /\ LET o == login_check(r.username, r.password, r.stored, session)
           IN /\ session' = o.session
              /\ last' = Answer(r, o.resp)
        /\ inflight' = Took(r)
        /\ UNCHANGED <<mongo, asMain, users, links, ex, rj>>

\* GET /check-auth: the session cookie sent and load_user decide the answer
CheckAuth ==
    /\ BagCardinality(inflight) < MaxInFlight
    /\ inflight' = Put([Arrived("check_auth") EXCEPT
                            !.at = "return",
                            !.user = current_user(users, session),
                            !.resp = check_auth(users, session)])
    /\ UNCHANGED <<mongo, asMain, users, links, session, last, ex, rj>>

CheckAuthReturn ==
    \E r \in BagToSet(inflight) :
        /\ r.op = "check_auth" /\ r.at = "return"
        /\ last' = Answer(r, r.resp)
        /\ inflight' = Took(r)
        /\ UNCHANGED <<mongo, asMain, users, links, session, ex, rj>>

\* GET /history: turned away by @login_required, or into the body
History ==
    LET enter == history_enter(users, session)
        r == [Arrived("history") EXCEPT !.user = enter.user]
    IN /\ BagCardinality(inflight) < MaxInFlight
       /\ inflight' = Put(IF enter.passed
                          THEN [r EXCEPT !.at = "find"]
                          ELSE [r EXCEPT !.at = "return", !.resp = unauthorized])
       /\ UNCHANGED <<mongo, asMain, users, links, session, last, ex, rj>>

\* links_collection.find: MongoDB returns the user's records;
\* MemoryCollection.find raises whenever it is called, so its 500 is given here
HistoryFind ==
    \E r \in BagToSet(inflight) :
        /\ r.op = "history" /\ r.at = "find"
        /\ LET resp == history_find(r.user, links, mongo)
           IN IF resp.status # 200
              THEN /\ last' = Answer(r, resp)
                   /\ inflight' = Took(r)
              ELSE /\ inflight' = Moved(r, [r EXCEPT !.at = "return", !.resp = resp])
                   /\ UNCHANGED last
        /\ UNCHANGED <<mongo, asMain, users, links, session, ex, rj>>

HistoryReturn ==
    \E r \in BagToSet(inflight) :
        /\ r.op = "history" /\ r.at = "return"
        /\ last' = Answer(r, r.resp)
        /\ inflight' = Took(r)
        /\ UNCHANGED <<mongo, asMain, users, links, session, ex, rj>>

\* POST /analyze: turned away by @login_required, or into the body
Analyze ==
    \E url \in UrlInputs, km \in KindModelInputs :
        LET enter == analyze_enter(users, session)
            r == [Arrived("analyze") EXCEPT
                    !.user = enter.user, !.url = url,
                    !.analyzer_type = IF km[1] = None THEN "lexicon" ELSE km[1],
                    !.model = km[2]]
        IN /\ BagCardinality(inflight) < MaxInFlight
           /\ inflight' = Put(IF enter.passed
                              THEN [r EXCEPT !.at = "extract"]
                              ELSE [r EXCEPT !.at = "return", !.resp = unauthorized])
           /\ UNCHANGED <<mongo, asMain, users, links, session, last, ex, rj>>

\* The downloads of extract_text_from_url come back (no store is involved:
\* an exception is answered here)
AnalyzeExtract ==
    \E r \in BagToSet(inflight) :
        /\ r.op = "analyze" /\ r.at = "extract"
        /\ \E web \in WebsFor(r.url) :
             LET e == analyze_extract(r.url, web)
                 q == [r EXCEPT !.extractor_called = TRUE, !.extracted = e.extracted]
             IN IF e.resp # NoResp
                THEN /\ last' = Answer(q, e.resp)
                     /\ inflight' = Took(r)
                ELSE /\ inflight' = Moved(r, [q EXCEPT !.at = "run"])
                     /\ UNCHANGED last
        /\ UNCHANGED <<mongo, asMain, users, links, session, ex, rj>>

\* run_java_analyzer returns or raises (no store is involved: an exception
\* is answered here)
AnalyzeRun ==
    \E r \in BagToSet(inflight) :
        /\ r.op = "analyze" /\ r.at = "run"
        /\ \E env \in EnvInputs :
             LET a == analyze_run(r.analyzer_type, r.extracted.ret, r.model, env)
                 q == [r EXCEPT !.analyzer_called = TRUE, !.invoked = a.invoked]
             IN IF a.resp # NoResp
                THEN /\ last' = Answer(q, a.resp)
                     /\ inflight' = Took(r)
                ELSE /\ inflight' = Moved(r, [q EXCEPT !.at = "insert_one"])
                     /\ UNCHANGED last
        /\ UNCHANGED <<mongo, asMain, users, links, session, ex, rj>>

\* The history record is built and inserted.  The NameError and the in-memory
\* store's KeyError are raised whenever the statement runs: answered here.
AnalyzeStore ==
    \E r \in BagToSet(inflight) :
        /\ r.op = "analyze" /\ r.at = "insert_one"
        /\ LET s == analyze_store(r.user, r.url, r.analyzer_type, r.model,
                                  r.invoked.value, links, mongo, asMain)
           IN /\ Len(s.links) <= MaxLinks
              /\ links' = s.links
              /\ IF s.resp # NoResp
                 THEN /\ last' = Answer(r, s.resp)
                      /\ inflight' = Took(r)
                 ELSE /\ inflight' = Moved(r, [r EXCEPT
                                                 !.at = "return",
                                                 !.inserted = s.inserted,
                                                 !.resp = analyze_return(r.invoked.value,
                                                                         r.url)])
                      /\ UNCHANGED last
        /\ UNCHANGED <<mongo, asMain, users, session, ex, rj>>

AnalyzeReturn ==
    \E r \in BagToSet(inflight) :
        /\ r.op = "analyze" /\ r.at = "return"
        /\ last' = Answer(r, r.resp)
        /\ inflight' = Took(r)
        /\ UNCHANGED <<mongo, asMain, users, links, session, ex, rj>>

Next ==
    \/ Register \/ RegisterInsert \/ RegisterReturn
    \/ Login \/ LoginCheck
    \/ CheckAuth \/ CheckAuthReturn
    \/ History \/ HistoryFind \/ HistoryReturn
    \/ Analyze \/ AnalyzeExtract \/ AnalyzeRun \/ AnalyzeStore \/ AnalyzeReturn

Spec == Init /\ [][Next]_vars

InitExtract ==
    /\ mongo = FALSE
    /\ asMain = FALSE
    /\ users = users_db
    /\ links = <<>>
    /\ session = None
    /\ inflight = EmptyBag
    /\ last = Arrived("none")
    /\ rj = RjIdle
    /\ \E i \in ExInputs :
         ex = [phase |-> "call", url |-> i.url, web |-> i.web, res |-> NotExtracted]

NextExtract == ExtractCall

SpecExtract == InitExtract /\ [][NextExtract]_vars

InitInvoke ==
    /\ mongo = FALSE
    /\ asMain = FALSE
    /\ users = users_db
    /\ links = <<>>
    /\ session = None
    /\ inflight = EmptyBag
    /\ last = Arrived("none")
    /\ ex = ExIdle
    /\ \E i \in RjInputs :
         rj = [phase |-> "call", analyzer_type |-> i.analyzer_type, text |-> i.text,
               model |-> i.model, env |-> i.env, res |-> NotInvoked]

NextInvoke == InvokeCall

SpecInvoke == InitInvoke /\ [][NextInvoke]_vars

-----------------------------------------------------------------------------
(* Claims about the handlers, checked under Spec                            *)

\* The session names no account of the users store (or there is no session)
Unauthenticated == session = None \/ session \notin DOMAIN users

\* This step answers a request (last' is that request): one it takes out of
\* flight, or one answered as it arrives
Answered ==
    \/ inflight' = inflight
    \/ BagCardinality(inflight') < BagCardinality(inflight)

\* A request arrives in this step and stays in flight
Arrives == BagCardinality(inflight') > BagCardinality(inflight)

\* The request that arrived in this step, as it stands in flight
IsArrival(r) == Arrives /\ CopiesIn(r, inflight') > CopiesIn(r, inflight)

\* The request r of the route op leaves the statement at in this step
Leaves(r, op, at) ==
    /\ r.op = op /\ r.at = at
    /\ CopiesIn(r, inflight') < CopiesIn(r, inflight)

IsFailureMessage(s) == s.src \in {m.src : m \in FailureMessages}

\* The extractor ran and came back with one of its failure messages
ExtractionFailed(r) ==
    r.extractor_called /\ ~r.extracted.raised /\ IsFailureMessage(r.extracted.ret)

\* The extractor ran and came back with article text
ExtractionSucceeded(r) ==
    r.extractor_called /\ ~r.extracted.raised /\ ~IsFailureMessage(r.extracted.ret)

\* run_java_analyzer ran and raised
AnalyzerFailed(r) == r.analyzer_called /\ ~r.invoked.ok

IsErrorResponse(resp) == resp.error # <<>> /\ resp.results = <<>>

\* The records a request carries as inserted are those its insert_one step
\* appended to the history store: the store changes only by such a step
InsertedIsWhatWasStored ==
    links' # links
    => \E r \in BagToSet(inflight) :
          /\ Leaves(r, "analyze", "insert_one")
          /\ \E q \in BagToSet(inflight') :
                /\ q.op = "analyze" /\ q.at = "return"
                /\ CopiesIn(q, inflight') > CopiesIn(q, inflight)
                /\ Len(q.inserted) = 1
                /\ links' = Append(links, q.inserted[1])

\* C1: an authenticated POST /analyze in which extraction fails (the extractor
\* yields one of its failure messages) or run_java_analyzer fails returns an
\* error response and inserts no history record.  (The demand that the error
\* carries the failure's message is left out: the statement fails without it.)
C1_FailureShortCircuits ==
    [][ (/\ Answered
         /\ last'.op = "analyze"
         /\ last'.user # None
         /\ (ExtractionFailed(last') \/ AnalyzerFailed(last')))
        => (/\ IsErrorResponse(last'.resp)
            /\ last'.inserted = <<>>
            /\ links' = links) ]_vars

\* C2: an authenticated POST /analyze where extraction succeeds and the external
\* program exits 0 with a JSON object returns 200 {results, console_message},
\* results being the normalized analyzer output and console_message
\* "Successfully analyzed article from <url>", and the history store grows by
\* exactly one record for it, with the caller as user and the request's url
\* and analyzer kind.
C2_SuccessIsStored ==
    [][ /\ InsertedIsWhatWasStored
        /\ (/\ Answered
            /\ last'.op = "analyze"
            /\ last'.user # None
            /\ ExtractionSucceeded(last')
            /\ last'.invoked.ok)
           => (/\ last'.resp.status = 200
               /\ last'.resp.error = <<>>
               /\ last'.resp.results = last'.invoked.value
               /\ last'.resp.console_message =
                    <<"Successfully analyzed article from ">> \o last'.url
               /\ Len(last'.inserted) = 1
               /\ last'.inserted[1].user = last'.user
               /\ last'.inserted[1].url = last'.url
               /\ last'.inserted[1].analyzer_type = last'.analyzer_type) ]_vars

\* C3: a POST /analyze that arrives without an authenticated session, whatever
\* its body, whatever requests came before and whatever requests are in
\* flight (a register that has stored its user and not yet logged it in
\* among them), does not get into the handler: it has only its 401 left to
\* receive, neither the extractor nor the analyzer is invoked for it, no
\* history record is inserted for it and the history store is left unchanged;
\* and an analyze answered 401 is answered so with none of that done.
C3_UnauthenticatedAnalyzeRejected ==
    [][ /\ Unauthenticated
           => \A r \in BagToSet(inflight') :
                 (r.op = "analyze" /\ IsArrival(r))
                 => (/\ r.at = "return"
                     /\ r.resp = unauthorized
                     /\ r.resp.status = 401
                     /\ ~r.extractor_called
                     /\ ~r.analyzer_called
                     /\ ~r.invoked.launched
                     /\ r.inserted = <<>>
                     /\ links' = links)
        /\ \A r \in BagToSet(inflight) :
              (Leaves(r, "analyze", "return") /\ r.resp.status = 401)
              => (/\ last' = Answer(r, unauthorized)
                  /\ ~last'.extractor_called
                  /\ ~last'.analyzer_called
                  /\ ~last'.invoked.launched
                  /\ last'.inserted = <<>>
                  /\ links' = links) ]_vars

\* C3 witness: an analyze request was answered 401 while the client held a
\* session cookie naming no account, the history store held a record of an
\* earlier analysis and another request was in flight.
C3_Witness ==
    /\ last.op = "analyze"
    /\ last.resp.status = 401
    /\ links # <<>>
    /\ session # None
    /\ Unauthenticated
    /\ inflight # EmptyBag

\* C4: an authenticated POST /analyze whose body has no url (missing or empty)
\* is answered 400 before the extractor is called; extractor and analyzer are
\* not invoked and no history record is written.
C4_MissingUrlRejected ==
    [][ (/\ Answered
         /\ last'.op = "analyze"
         /\ last'.user # None
         /\ last'.url \in {NoneUrl, <<>>})
        => (/\ last'.resp.status = 400
            /\ ~last'.extractor_called
            /\ ~last'.analyzer_called
            /\ last'.inserted = <<>>
            /\ links' = links) ]_vars

\* C8: an account once created never changes.  A register that finds its
\* username in the users store, at its check or at its insert, is answered 409
\* and one without a username or a password 400, both leaving the store as it
\* was; nothing but the insert of a register on its way to 201 writes to the
\* users store.
C8_AccountsNeverChange ==
    [][ /\ \A u \in DOMAIN users : u \in DOMAIN users' /\ users'[u] = users[u]
        /\ users' # users
             => \E r \in BagToSet(inflight) :
                   /\ Leaves(r, "register", "insert_one")
                   /\ CopiesIn([r EXCEPT !.at = "login_user"], inflight')
                        > CopiesIn([r EXCEPT !.at = "login_user"], inflight)
        /\ (Answered /\ last'.op = "register"
                /\ (falsy(last'.username) \/ falsy(last'.password))
              => last'.resp.status = 400 /\ users' = users)
        /\ (Answered /\ last'.op = "register" /\ inflight' = inflight
                /\ last'.username \in DOMAIN users /\ ~falsy(last'.password)
              => last'.resp.status = 409 /\ users' = users)
        /\ \A r \in BagToSet(inflight) :
              (Leaves(r, "register", "insert_one") /\ r.username \in DOMAIN users)
              => (last' = Answer(r, ErrorResp(409, <<"Username already exists">>))
                  /\ users' = users) ]_vars

\* C10: POST /login answers 200 and establishes the session only when the users
\* store holds an account for the username whose stored hash matches the
\* password; otherwise it answers 401 and establishes no session; and after a
\* 200 login GET /check-auth reports authenticated with that username.
C10_LoginNeedsMatchingAccount ==
    [][ (Answered /\ last'.op = "login")
        => LET matches ==
                 /\ last'.username \in DOMAIN users
                 /\ users[last'.username] = [kind |-> "bcrypt", pw |-> last'.password]
           IN /\ matches => last'.resp.status = 200 /\ session' = last'.username
              /\ ~matches => last'.resp.status = 401 /\ session' = session
              /\ last'.resp.status = 200
                   => /\ check_auth(users', session').status = 200
                      /\ check_auth(users', session').authenticated
                      /\ check_auth(users', session').user = last'.username ]_vars

-----------------------------------------------------------------------------
(* Claims about extract_text_from_url, checked under SpecExtract            *)

\* C5: the string extract_text_from_url returns is at most 5000 characters
\* long, on the primary path and on the fallback path alike.
C5_ExtractedTextBounded ==
    (ex.phase = "done" /\ ~ex.res.raised) => len(ex.res.ret) <= 5000

\* The call reached the selector search of the fallback: the URL is no download
\* link, newspaper3k gave no usable text and the page came back as HTML.
FallbackParsed ==
    /\ ex.phase = "done"
    /\ ex.url # NoneUrl
    /\ ~(ex.url # <<>> /\ lower(ex.url[Len(ex.url)]) \in download_extensions)
    /\ (ex.web.primary.raises \/ len(ex.web.primary.text) <= 100)
    /\ ex.web.http.status = 200
    /\ ex.web.http.html

\* Selector i matches an element whose stripped text exceeds 200 characters
Qualifies(soup, i) ==
    soup.sel[i].found /\ len(strip(soup.sel[i].text)) > 200

\* Where the claim has the text taken from
ClaimedSource(soup) ==
    IF \E i \in SelIdx : Qualifies(soup, i)
    THEN selectors[MinOf({i \in SelIdx : Qualifies(soup, i)})]
    ELSE "page"

\* C9: the fallback takes the text from the element of the first selector, in
\* the listed order, whose stripped text exceeds 200 characters, and from the
\* full page's visible text when no selector yields such an element (also when
\* some selector matches an element of 200 characters or fewer).
C9_FirstQualifyingSelectorElsePage ==
    FallbackParsed => ex.res.took = ClaimedSource(ex.web.http.soup)

-----------------------------------------------------------------------------
(* Claims about run_java_analyzer, checked under SpecInvoke                 *)

KnownKinds == {"lexicon", "llm", "transformer"}

UnknownTypeError(kind) == Exc("ValueError", <<"Unknown analyzer type: ", kind>>)

\* C6 as stated: for an analyzer kind outside {lexicon, llm, transformer},
\* whether or not the JAR is present, run_java_analyzer fails with
\* "Unknown analyzer type: <kind>" and launches no subprocess.
C6_UnknownKindRejected ==
    (rj.phase = "done" /\ rj.analyzer_type \notin KnownKinds)
    => (/\ ~rj.res.ok
        /\ rj.res.exc = UnknownTypeError(rj.analyzer_type)
        /\ ~rj.res.launched)

\* C6 amended: for an analyzer kind outside {lexicon, llm, transformer},
\* run_java_analyzer launches no subprocess and fails: with "Unknown analyzer
\* type: <kind>" when the JAR is present, with the JAR-not-found error when it
\* is absent (the JAR is checked first).
C6_UnknownKindRejectedAfterJarCheck ==
    (rj.phase = "done" /\ rj.analyzer_type \notin KnownKinds)
    => (/\ ~rj.res.ok
        /\ ~rj.res.launched
        /\ rj.res.cmd = <<>>
        /\ rj.env.jar_exists => rj.res.exc = UnknownTypeError(rj.analyzer_type)
        /\ ~rj.env.jar_exists
             => /\ rj.res.exc.type = "Exception"
                /\ rj.res.exc.msg[1] = "JAR file not found: ")

\* C6 witness: with the JAR present, kind gpt2 was refused without a launch.
C6_Witness ==
    /\ rj.phase = "done"
    /\ rj.analyzer_type = "gpt2"
    /\ rj.env.jar_exists
    /\ rj.res.exc = UnknownTypeError("gpt2")
    /\ ~rj.res.launched

\* The external program ran for a known kind, exited 0 and printed a JSON object
ProgramEmittedObject ==
    /\ rj.phase = "done"
    /\ rj.env.jar_exists
    /\ rj.analyzer_type \in KnownKinds
    /\ ~rj.env.proc.spawn_error
    /\ rj.env.proc.returncode = 0
    /\ rj.env.proc.stdout.kind = "object"

\* The value as a float, for the values float() accepts
AsFloat(v) ==
    [t |-> "float", n |-> IF v.t = "str" THEN numeric_strings[v.s] ELSE v.n, s |-> ""]

\* left and right, where emitted, are numbers or numeric strings
Coercible(d) ==
    \A k \in {"left", "right"} \cap DOMAIN d :
        \/ d[k].t \in {"int", "float"}
        \/ d[k].t = "str" /\ d[k].s \in DOMAIN numeric_strings

\* v is the emitted object d normalized as the claim says
NormalizedFrom(d, v) ==
    /\ DOMAIN v = DOMAIN d \cup {"left", "right", "message", "explanation"}
    /\ v["left"] = IF "left" \in DOMAIN d THEN AsFloat(d["left"]) ELSE JFloat(50)
    /\ v["right"] = IF "right" \in DOMAIN d THEN AsFloat(d["right"]) ELSE JFloat(50)
    /\ v["message"] = IF "message" \in DOMAIN d THEN d["message"]
                      ELSE JStr("Analysis complete")
    /\ v["explanation"] = IF "explanation" \in DOMAIN d THEN d["explanation"]
                          ELSE v["message"]
    /\ \A k \in DOMAIN d \ {"left", "right"} : v[k] = d[k]

\* C7 as stated: for every JSON object emitted with exit code 0,
\* run_java_analyzer returns that object normalized: left and right coerced to
\* float or 50.0 where absent, message or "Analysis complete", explanation or
\* else the message, every other field kept.
C7_EveryObjectNormalized ==
    ProgramEmittedObject
    => (rj.res.ok /\ Coercible(rj.env.proc.stdout.obj)
        /\ NormalizedFrom(rj.env.proc.stdout.obj, rj.res.value))

\* C7 amended: for every JSON object emitted with exit code 0 whose left and
\* right, where present, are values float() accepts, run_java_analyzer returns
\* that object normalized as above; when left or right is present and float()
\* rejects it (null, a non-numeric string), run_java_analyzer raises
\* "Error running analyzer: ..." instead of returning.
C7_CoercibleObjectNormalized ==
    ProgramEmittedObject
    => IF Coercible(rj.env.proc.stdout.obj)
       THEN rj.res.ok /\ NormalizedFrom(rj.env.proc.stdout.obj, rj.res.value)
       ELSE /\ ~rj.res.ok
            /\ rj.res.exc.type = "Exception"
            /\ rj.res.exc.msg[1] = "Error running analyzer: "

\* C7 witness: the program printed {"left": 70} and the call returned
\* {left: 70.0, right: 50.0, message: "Analysis complete",
\*  explanation: "Analysis complete"}.
C7_Witness ==
    /\ ProgramEmittedObject
    /\ rj.env.proc.stdout.obj = [left |-> JInt(70)]
    /\ rj.res.ok
    /\ rj.res.value = [left |-> JFloat(70), right |-> JFloat(50),
                       message |-> JStr("Analysis complete"),
                       explanation |-> JStr("Analysis complete")]

====
